---- MODULE Spec2Model ----
(***************************************************************************)
(* Model of update_journal.py: the schedule resolver and the overlay       *)
(* compositor of add_recurring_items_to_pdf, the identifier renaming of    *)
(* backup_journal/main, and the sequence of rmapi commands issued by main. *)
(***************************************************************************)
EXTENDS Integers, Naturals, Sequences, FiniteSets, TLC

VARIABLES
    pc,                 \* position of the run
    spans,              \* config['recurring_items_spans']
    date_pages_year,    \* config['date_pages_year']
    date_pages_start,   \* config['date_pages_start']
    page_items_map,     \* the plan built by add_recurring_items_to_pdf
    pdf,                \* the document: a sequence of pages
    pdf0,               \* the document as it was opened
    members,            \* the member paths of the extracted container
    members0,           \* the member paths as they were extracted
    doc_uuid,           \* the identifier found in the container (<<>> before)
    store,              \* the document store: entry name -> content
    store0,             \* the store as it was when the run began
    issued,             \* the rmapi commands issued so far, with their outcome
    backup_name,        \* the name chosen by get_backup_name (<<>> before)
    abort               \* why the run aborted ("" while it has not)

vars == <<pc, spans, date_pages_year, date_pages_start, page_items_map,
          pdf, pdf0, members, members0, doc_uuid, store, store0, issued,
          backup_name, abort>>

(***************************************************************************)
(* Bounds of the model                                                     *)
(***************************************************************************)
MaxSpans == 2       \* longest span list
MaxPages == 3       \* most pages of a document given to the compositor
MaxPlanPage == 4    \* largest page number of a plan given to the compositor
MaxBackups == 1     \* most backups of today already in the store

(***************************************************************************)
(* Dates: a starts_on string "Y-M-D" is the triple of its three fields.    *)
(***************************************************************************)
\* datetime's leap-year rule (used by strptime and tm_yday)
PyIsLeap(y) == (y % 4 = 0) /\ ((y % 100 # 0) \/ (y % 400 = 0))

PyDaysInMonth(y, m) ==
    IF m = 2 THEN (IF PyIsLeap(y) THEN 29 ELSE 28)
    ELSE IF m \in {4, 6, 9, 11} THEN 30 ELSE 31

\* datetime.strptime(s, '%Y-%m-%d') succeeds
ValidDate(d) ==
    /\ d[1] >= 1 /\ d[1] <= 9999
    /\ d[2] >= 1 /\ d[2] <= 12
    /\ d[3] >= 1 /\ d[3] <= PyDaysInMonth(d[1], d[2])

RECURSIVE DaysBeforeMonth(_, _)
DaysBeforeMonth(y, m) ==
    IF m <= 1 THEN 0 ELSE DaysBeforeMonth(y, m - 1) + PyDaysInMonth(y, m - 1)

\* starts_on.timetuple().tm_yday
DayOfYear(d) == DaysBeforeMonth(d[1], d[2]) + d[3]

(***************************************************************************)
(* Schedule resolver (add_recurring_items_to_pdf, first half)              *)
(***************************************************************************)
is_leap_year(year) ==
    (year % 4 = 0 /\ year % 100 # 0) \/ (year % 400 = 0)

days_in_year(year) == IF is_leap_year(year) THEN 366 ELSE 365

\* date_pages_end one page too far
date_pages_end_long(start, year) == start + days_in_year(year)

date_pages_end(start, year) == start + days_in_year(year) - 1

\* span_start_page without the - 1
span_start_page_next_day(start, day_of_year) == start + day_of_year

span_start_page(start, day_of_year) == start + day_of_year - 1

\* the year test left out
InYear_any(d, year) == TRUE

\* if starts_on.year == date_pages_year
InYear(d, year) == d[1] = year

\* the items put in front of the page's list
ExtendPage_prepend(old, items) == items \o old

\* page_items_map[page_num].extend(items), after the key was created
ExtendPage(old, items) == old \o items

\* the loop over range(span_start_page, date_pages_end + 1)
ExtendPages(map, first, last, items) ==
    [p \in (DOMAIN map) \cup (first..last) |->
        IF p \in first..last
        THEN ExtendPage(IF p \in DOMAIN map THEN map[p] ELSE <<>>, items)
        ELSE map[p]]

EmptyMap == [p \in {} |-> <<>>]

\* the loop over recurring_items_spans; a malformed date raises out of it
RECURSIVE ResolveFrom(_, _, _, _, _)
ResolveFrom(ss, i, map, start, year) ==
    IF i > Len(ss) THEN [ok |-> TRUE, map |-> map]
    ELSE IF ~ValidDate(ss[i].starts_on) THEN [ok |-> FALSE, map |-> EmptyMap]
    ELSE IF InYear(ss[i].starts_on, year)
         THEN ResolveFrom(ss, i + 1,
                  ExtendPages(map,
                              span_start_page(start, DayOfYear(ss[i].starts_on)),
                              date_pages_end(start, year),
                              ss[i].items),
                  start, year)
         ELSE ResolveFrom(ss, i + 1, map, start, year)

Resolve(ss, start, year) == ResolveFrom(ss, 1, EmptyMap, start, year)

(***************************************************************************)
(* Inputs of the resolver                                                  *)
(***************************************************************************)
\* starts_on strings; "2025-02-29", "1900-02-29" and "2025-13-01" are malformed
StartsOnValues ==
    { <<2025, 3, 1>>, <<2025, 12, 30>>, <<2024, 2, 29>>, <<2024, 12, 31>>,
      <<1900, 12, 31>>, <<2000, 12, 31>>, <<2025, 2, 29>>, <<2025, 13, 1>> }

ItemLists == { <<"A", "B">>, <<"B">>, <<>> }

SpanValues == [starts_on : StartsOnValues, items : ItemLists]

SpanLists == UNION { [1..n -> SpanValues] : n \in 0..MaxSpans }

YearValues == {1900, 2000, 2024, 2025}

StartValues == {1, 144}

EmptyStore == [n \in {} |-> ""]

Idle ==
    /\ pdf = <<>> /\ pdf0 = <<>>
    /\ members = {} /\ members0 = {} /\ doc_uuid = <<>>
    /\ store = EmptyStore /\ store0 = EmptyStore
    /\ issued = <<>> /\ backup_name = <<>>
    /\ abort = ""

InitResolver ==
    /\ pc = "resolve"
    /\ spans \in SpanLists
    /\ date_pages_year \in YearValues
    /\ date_pages_start \in StartValues
    /\ page_items_map = EmptyMap
    /\ Idle

\* add_recurring_items_to_pdf up to the opening of the PDF
ResolverRun ==
    /\ pc = "resolve"
    /\ LET r == Resolve(spans, date_pages_start, date_pages_year) IN
         /\ pc' = IF r.ok THEN "resolved" ELSE "aborted"
         /\ abort' = IF r.ok THEN "" ELSE "malformed_date"
         /\ page_items_map' = r.map
    /\ UNCHANGED <<spans, date_pages_year, date_pages_start, pdf, pdf0,
                   members, members0, doc_uuid, store, store0, issued, backup_name>>

NextResolver == ResolverRun

SpecResolver == InitResolver /\ [][NextResolver]_vars

(***************************************************************************)
(* Overlay compositor (add_recurring_items_to_pdf, second half)            *)
(* A page is its number of underlay layers, its annotations, and whether   *)
(* it carries a MediaBox of its own.                                       *)
(***************************************************************************)
\* the page replaced by the overlay page
add_underlay_replace(page) ==
    [underlays |-> page.underlays + 1, annots |-> {}, has_box |-> page.has_box]

\* page.add_underlay(overlay_page)
add_underlay(page) == [page EXCEPT !.underlays = @ + 1]

\* the first key of sorted(page_items_map.items())
FirstKey(keys) == CHOOSE k \in keys : \A j \in keys : k <= j

\* the loop over sorted(page_items_map.items()), then pdf.save
RECURSIVE CompositeFrom(_, _)
CompositeFrom(doc, keys) ==
    IF keys = {} THEN [ok |-> TRUE, doc |-> doc]
    ELSE LET page_num == FirstKey(keys) IN
         IF page_num > Len(doc) THEN [ok |-> TRUE, doc |-> doc]
         ELSE IF ~doc[page_num].has_box THEN [ok |-> FALSE, doc |-> doc]
         ELSE CompositeFrom([doc EXCEPT ![page_num] = add_underlay(@)],
                            keys \ {page_num})

Composite(doc, plan) == CompositeFrom(doc, DOMAIN plan)

(***************************************************************************)
(* Inputs of the compositor                                                *)
(***************************************************************************)
PageValues == [underlays : {0}, annots : {{}, {"link"}}, has_box : BOOLEAN]

DocValues == UNION { [1..n -> PageValues] : n \in 0..MaxPages }

PlanValues ==
    UNION { [keys -> {<<"A">>, <<>>}] : keys \in SUBSET (1..MaxPlanPage) }

InitCompositor ==
    /\ pc = "composite"
    /\ spans = <<>> /\ date_pages_year = 2025 /\ date_pages_start = 1
    /\ page_items_map \in PlanValues
    /\ pdf0 \in DocValues /\ pdf = pdf0
    /\ members = {} /\ members0 = {} /\ doc_uuid = <<>>
    /\ store = EmptyStore /\ store0 = EmptyStore
    /\ issued = <<>> /\ backup_name = <<>>
    /\ abort = ""

\* add_recurring_items_to_pdf from the opening of the PDF to its saving
CompositorRun ==
    /\ pc = "composite"
    /\ LET r == Composite(pdf, page_items_map) IN
         /\ pc' = IF r.ok THEN "composited" ELSE "aborted"
         /\ abort' = IF r.ok THEN "" ELSE "no_mediabox"
         /\ pdf' = IF r.ok THEN r.doc ELSE pdf
    /\ UNCHANGED <<spans, date_pages_year, date_pages_start, page_items_map,
                   pdf0, members, members0, doc_uuid, store, store0, issued, backup_name>>

NextCompositor == CompositorRun

SpecCompositor == InitCompositor /\ [][NextCompositor]_vars

(***************************************************************************)
(* Container renaming (backup_journal and main)                            *)
(* A member is the name of its top-level entry, as the sequence of its     *)
(* dot-separated parts, and its path below that entry ("" for a file at    *)
(* the top level).                                                         *)
(***************************************************************************)
HasPrefix(name, prefix) ==
    /\ Len(name) >= Len(prefix)
    /\ SubSeq(name, 1, Len(prefix)) = prefix

\* Path.stem: the name without its last suffix
Stem(name) == SubSeq(name, 1, Len(name) - 1)

\* the stems of glob('*.pdf'), of which the code takes the first listed
PdfStems(ms) ==
    { Stem(m.top) : m \in { x \in ms : /\ x.rest = ""
                                      /\ Len(x.top) >= 2
                                      /\ x.top[Len(x.top)] = "pdf" } }

\* glob(f"{old_uuid}.*") matches the top-level entry
GlobMatches(name, old) == HasPrefix(name, old) /\ Len(name) > Len(old)

\* new_uuid + old_file.suffix for a matched entry, new_uuid for the entry
\* named old_uuid itself, the name kept otherwise
RenameTop(name, old, new) ==
    IF GlobMatches(name, old) THEN <<new, name[Len(name)]>>
    ELSE IF name = old THEN <<new>>
    ELSE name

\* the two renaming steps, and the members os.walk then finds
Reidentify(ms, old, new) ==
    { [top |-> RenameTop(m.top, old, new), rest |-> m.rest] : m \in ms }

new_uuid == "new456"

MemberValues ==
    { [top |-> <<"old123", "pdf">>, rest |-> ""],
      [top |-> <<"old123", "content">>, rest |-> ""],
      [top |-> <<"old123", "v2", "content">>, rest |-> ""],
      [top |-> <<"old123", "bak", "pdf">>, rest |-> ""],
      [top |-> <<"old123">>, rest |-> "meta.json"],
      [top |-> <<"other", "pdf">>, rest |-> ""],
      [top |-> <<"other">>, rest |-> "meta.json"],
      [top |-> <<"notes">>, rest |-> ""] }

InitRepackager ==
    /\ pc = "extract"
    /\ spans = <<>> /\ date_pages_year = 2025 /\ date_pages_start = 1
    /\ page_items_map = EmptyMap
    /\ pdf = <<>> /\ pdf0 = <<>>
    /\ members0 \in SUBSET MemberValues /\ members = members0
    /\ doc_uuid = <<>>
    /\ store = EmptyStore /\ store0 = EmptyStore
    /\ issued = <<>> /\ backup_name = <<>>
    /\ abort = ""

\* the identifier is found, the entries are renamed, the archive is written
RepackagerRun ==
    /\ pc = "extract"
    /\ PdfStems(members) # {}
    /\ \E old \in PdfStems(members) :
         /\ doc_uuid' = old
         /\ members' = Reidentify(members, old, new_uuid)
    /\ pc' = "repackaged"
    /\ UNCHANGED <<spans, date_pages_year, date_pages_start, page_items_map,
                   pdf, pdf0, members0, store, store0, issued, backup_name, abort>>

\* "Error: No PDF found in .rmdoc"
RepackagerNoPdf ==
    /\ pc = "extract"
    /\ PdfStems(members) = {}
    /\ pc' = "aborted"
    /\ abort' = "no_pdf"
    /\ UNCHANGED <<spans, date_pages_year, date_pages_start, page_items_map,
                   pdf, pdf0, members, members0, doc_uuid, store, store0, issued, backup_name>>

NextRepackager == RepackagerRun \/ RepackagerNoPdf

SpecRepackager == InitRepackager /\ [][NextRepackager]_vars

(***************************************************************************)
(* The run of main against the document store                              *)
(* A name is the sequence of the pieces it is built from, so that          *)
(* "x in output" is the occurrence of one sequence inside another.         *)
(***************************************************************************)
source_name == <<"Bullet Journal">>

backup_folder == <<"Bullet Journal", " Backups">>

current_year == "2026"      \* datetime.now().year

month_day == "1104"         \* the rest of strftime('%Y%m%d')

target_name == <<"Bullet_Journal_", current_year>>

base_name == <<"Bullet_Journal_", current_year, month_day>>

\* f"{base_name}_{increment}"
Candidate(increment) == base_name \o <<"_", ToString(increment)>>

\* Path(rmdoc_path).stem, of Path(temp_dir) / f"{target_name}.rmdoc"
uploaded_name == target_name

backup_uuid == "bak789"

\* x in s, for two strings
Contains(x, name) ==
    \E i \in 0..(Len(name) - Len(x)) : SubSeq(name, i + 1, i + Len(x)) = x

\* x in output, the output of rmapi ls being one line per entry
InOutput(x, output) == \E e \in output : Contains(x, e)

\* the stdout of rmapi ls
LsOutput(ok) == IF ok THEN DOMAIN store ELSE {}

RECURSIVE NextFree(_, _)
NextFree(output, increment) ==
    IF ~InOutput(Candidate(increment), output) THEN Candidate(increment)
    ELSE NextFree(output, increment + 1)

get_backup_name(output) ==
    IF ~InOutput(base_name, output) THEN base_name ELSE NextFree(output, 1)

\* a failed command is reported and the run goes on
Exits_never(check, ok) == FALSE

\* run_command: sys.exit(1) when check and the return code is not 0
Exits(check, ok) == check /\ ~ok

\* the return codes rmapi can give: get and rm need the entry, put and mkdir
\* refuse an entry that exists, and every command can fail in transport
NeedsEntry(name) == IF name \in DOMAIN store THEN BOOLEAN ELSE {FALSE}

NeedsNoEntry(name) == IF name \in DOMAIN store THEN {FALSE} ELSE BOOLEAN

StoreAdd(name, content) ==
    [n \in (DOMAIN store) \cup {name} |-> IF n = name THEN content ELSE store[n]]

StoreRemove(name) == [n \in (DOMAIN store) \ {name} |-> store[n]]

Issue(by, cmd, name, ok) ==
    issued' = Append(issued, [by |-> by, cmd |-> cmd, name |-> name, ok |-> ok])

Abort(reason) == pc' = "aborted" /\ abort' = reason

(***************************************************************************)
(* Inputs of the run                                                       *)
(***************************************************************************)
ContentOf(name) ==
    IF name = source_name THEN "journal"
    ELSE IF name = backup_folder THEN "folder"
    ELSE IF name = target_name THEN "old_target"
    ELSE "old_backup"

ExistingBackups(k) ==
    { IF j = 0 THEN base_name ELSE Candidate(j) : j \in 0..(k - 1) }

StoreValues ==
    { [n \in names \cup ExistingBackups(k) |-> ContentOf(n)] :
        names \in SUBSET {source_name, backup_folder, target_name},
        k \in 0..MaxBackups }

MainSpanLists ==
    { <<>>,
      <<[starts_on |-> <<2025, 1, 1>>, items |-> <<"A">>]>>,
      <<[starts_on |-> <<2025, 12, 30>>, items |-> <<"A", "B">>]>>,
      <<[starts_on |-> <<2025, 2, 29>>, items |-> <<"A">>]>> }

MainContainers ==
    { { [top |-> <<"old123", "pdf">>, rest |-> ""],
        [top |-> <<"old123">>, rest |-> "meta.json"] },
      { [top |-> <<"old123", "content">>, rest |-> ""] } }

MainDocs ==
    { << [underlays |-> 0, annots |-> {"link"}, has_box |-> TRUE],
         [underlays |-> 0, annots |-> {}, has_box |-> b] >> : b \in BOOLEAN }

TemplateDoc == << [underlays |-> 0, annots |-> {}, has_box |-> TRUE] >>

InitMain ==
    /\ pc = "load_config"
    /\ spans \in MainSpanLists
    /\ date_pages_year = 2025 /\ date_pages_start = 1
    /\ page_items_map = EmptyMap
    /\ pdf0 \in MainDocs /\ pdf = pdf0
    /\ members0 \in MainContainers /\ members = {}
    /\ doc_uuid = <<>>
    /\ store0 \in StoreValues /\ store = store0
    /\ issued = <<>> /\ backup_name = <<>>
    /\ abort = ""

(***************************************************************************)
(* The steps of the run                                                    *)
(***************************************************************************)
LoadConfig ==
    /\ pc = "load_config"
    /\ pc' = "ensure_backup_folder"
    /\ UNCHANGED <<spans, date_pages_year, date_pages_start, page_items_map,
                   pdf, pdf0, members, members0, doc_uuid, store, store0,
                   issued, backup_name, abort>>

\* "Error: config.yml not found"
LoadConfigMissing ==
    /\ pc = "load_config"
    /\ Abort("no_config")
    /\ UNCHANGED <<spans, date_pages_year, date_pages_start, page_items_map,
                   pdf, pdf0, members, members0, doc_uuid, store, store0,
                   issued, backup_name>>

\* ensure_backup_folder: rmapi ls
EnsureBackupFolderLs ==
    /\ pc = "ensure_backup_folder"
    /\ \E ok \in BOOLEAN :
         /\ Issue("ensure_backup_folder", "ls", <<>>, ok)
         /\ IF Exits(TRUE, ok) THEN Abort("command_failed")
            ELSE /\ pc' = IF InOutput(backup_folder, LsOutput(ok))
                          THEN "get_backup_name" ELSE "mkdir"
                 /\ abort' = abort
    /\ UNCHANGED <<spans, date_pages_year, date_pages_start, page_items_map,
                   pdf, pdf0, members, members0, doc_uuid, store, store0,
                   backup_name>>

\* ensure_backup_folder: rmapi mkdir "Bullet Journal Backups"
EnsureBackupFolderMkdir ==
    /\ pc = "mkdir"
    /\ \E ok \in NeedsNoEntry(backup_folder) :
         /\ Issue("ensure_backup_folder", "mkdir", backup_folder, ok)
         /\ store' = IF ok THEN StoreAdd(backup_folder, "folder") ELSE store
         /\ IF Exits(TRUE, ok) THEN Abort("command_failed")
            ELSE pc' = "get_backup_name" /\ abort' = abort
    /\ UNCHANGED <<spans, date_pages_year, date_pages_start, page_items_map,
                   pdf, pdf0, members, members0, doc_uuid, store0, backup_name>>

\* get_backup_name: rmapi ls, then the first name not in the output
GetBackupName ==
    /\ pc = "get_backup_name"
    /\ \E ok \in BOOLEAN :
         /\ Issue("get_backup_name", "ls", <<>>, ok)
         /\ IF Exits(TRUE, ok)
            THEN Abort("command_failed") /\ backup_name' = backup_name
            ELSE /\ pc' = "backup_get" /\ abort' = abort
                 /\ backup_name' = get_backup_name(LsOutput(ok))
    /\ UNCHANGED <<spans, date_pages_year, date_pages_start, page_items_map,
                   pdf, pdf0, members, members0, doc_uuid, store, store0>>

\* backup_journal: rmapi get, extraction, renaming to a new identifier and
\* repackaging of the backup
BackupGet ==
    /\ pc = "backup_get"
    /\ \E ok \in NeedsEntry(source_name) :
         /\ Issue("backup_journal", "get", source_name, ok)
         /\ IF Exits(TRUE, ok)
            THEN Abort("command_failed") /\ members' = members
            ELSE IF PdfStems(members0) = {}
            THEN Abort("no_pdf") /\ members' = members
            ELSE /\ pc' = "backup_put" /\ abort' = abort
                 /\ \E old_uuid \in PdfStems(members0) :
                      members' = Reidentify(members0, old_uuid, backup_uuid)
    /\ UNCHANGED <<spans, date_pages_year, date_pages_start, page_items_map,
                   pdf, pdf0, members0, doc_uuid, store, store0, backup_name>>

\* backup_journal: rmapi put of the backup
BackupPut ==
    /\ pc = "backup_put"
    /\ \E ok \in NeedsNoEntry(backup_name) :
         /\ Issue("backup_journal", "put", backup_name, ok)
         /\ store' = IF ok THEN StoreAdd(backup_name, "backup") ELSE store
         /\ IF Exits(TRUE, ok) THEN Abort("command_failed")
            ELSE pc' = "process" /\ abort' = abort
    /\ UNCHANGED <<spans, date_pages_year, date_pages_start, page_items_map,
                   pdf, pdf0, members, members0, doc_uuid, store0, backup_name>>

\* main from the glob of *.rmdoc to repackage_rmdoc: the first .rmdoc listed
\* is the downloaded journal or the backup, in no stated order
ProcessJournal ==
    /\ pc = "process"
    /\ \E extracted \in {members0, members},
          template \in {"none", "missing", "present"} :
        \E uuid \in PdfStems(extracted) :
          LET doc == IF template = "present" THEN TemplateDoc ELSE pdf
              r == Resolve(spans, date_pages_start, date_pages_year)
              c == Composite(doc, r.map)
              done == template # "missing" /\ r.ok /\ c.ok
          IN  /\ doc_uuid' = uuid
              /\ page_items_map' = IF template # "missing" THEN r.map
                                   ELSE page_items_map
              /\ pdf' = IF done THEN c.doc ELSE pdf
              /\ members' = IF done THEN Reidentify(extracted, uuid, new_uuid)
                            ELSE extracted
              /\ IF template = "missing" THEN Abort("no_template")
                 ELSE IF ~r.ok THEN Abort("malformed_date")
                 ELSE IF ~c.ok THEN Abort("no_mediabox")
                 ELSE pc' = "upload_ls" /\ abort' = abort
    /\ UNCHANGED <<spans, date_pages_year, date_pages_start, pdf0, members0,
                   store, store0, issued, backup_name>>

\* upload_journal: rmapi ls with check=False
UploadLs ==
    /\ pc = "upload_ls"
    /\ \E ok \in BOOLEAN :
         /\ Issue("upload_journal", "ls", <<>>, ok)
         /\ IF Exits(FALSE, ok) THEN Abort("command_failed")
            ELSE /\ pc' = IF InOutput(target_name, LsOutput(ok))
                          THEN "upload_rm" ELSE "upload_put"
                 /\ abort' = abort
    /\ UNCHANGED <<spans, date_pages_year, date_pages_start, page_items_map,
                   pdf, pdf0, members, members0, doc_uuid, store, store0,
                   backup_name>>

\* upload_journal: rmapi rm of the target
UploadRm ==
    /\ pc = "upload_rm"
    /\ \E ok \in NeedsEntry(target_name) :
         /\ Issue("upload_journal", "rm", target_name, ok)
         /\ store' = IF ok THEN StoreRemove(target_name) ELSE store
         /\ IF Exits(TRUE, ok) THEN Abort("command_failed")
            ELSE pc' = "upload_put" /\ abort' = abort
    /\ UNCHANGED <<spans, date_pages_year, date_pages_start, page_items_map,
                   pdf, pdf0, members, members0, doc_uuid, store0, backup_name>>

\* upload_journal: rmapi put of the new document; no rmapi mv follows, the
\* uploaded name being the target name
UploadPut ==
    /\ pc = "upload_put"
    /\ \E ok \in NeedsNoEntry(uploaded_name) :
         /\ Issue("upload_journal", "put", uploaded_name, ok)
         /\ store' = IF ok THEN StoreAdd(uploaded_name, "updated") ELSE store
         /\ IF Exits(TRUE, ok) THEN Abort("command_failed")
            ELSE /\ pc' = IF uploaded_name # target_name THEN "upload_mv" ELSE "done"
                 /\ abort' = abort
    /\ UNCHANGED <<spans, date_pages_year, date_pages_start, page_items_map,
                   pdf, pdf0, members, members0, doc_uuid, store0, backup_name>>

NextMain ==
    \/ LoadConfig \/ LoadConfigMissing
    \/ EnsureBackupFolderLs \/ EnsureBackupFolderMkdir
    \/ GetBackupName \/ BackupGet \/ BackupPut
    \/ ProcessJournal
    \/ UploadLs \/ UploadRm \/ UploadPut

SpecMain == InitMain /\ [][NextMain]_vars

(***************************************************************************)
(* Properties of the resolver                                              *)
(***************************************************************************)
Resolved == pc = "resolved"

\* the leap rule as the specification words it
SpecDaysInYear(y) ==
    IF (y % 4 = 0 /\ y % 100 # 0) \/ (y % 400 = 0) THEN 366 ELSE 365

SpecStartPage(d) == date_pages_start + DayOfYear(d) - 1

SpecLastDayPage == date_pages_start + SpecDaysInYear(date_pages_year) - 1

\* C1: for a single span whose starts_on year is date_pages_year the keys of
\* the plan are exactly start_page..last_day_page, every one of them maps to
\* the span's items in order, and no earlier page is a key.
C1_SingleSpanPlan ==
    (Resolved /\ Len(spans) = 1 /\ spans[1].starts_on[1] = date_pages_year)
    => /\ DOMAIN page_items_map = SpecStartPage(spans[1].starts_on)..SpecLastDayPage
       /\ \A p \in DOMAIN page_items_map : page_items_map[p] = spans[1].items
       /\ \A p \in 1..(SpecStartPage(spans[1].starts_on) - 1) :
             p \notin DOMAIN page_items_map

\* the example of the specification: 2025-03-01, ["A","B"], first page 144
C1_Witness ==
    /\ Resolved
    /\ spans = <<[starts_on |-> <<2025, 3, 1>>, items |-> <<"A", "B">>]>>
    /\ date_pages_year = 2025 /\ date_pages_start = 144
    /\ DOMAIN page_items_map = 203..508
    /\ page_items_map[203] = <<"A", "B">>

Covers(i, p) ==
    /\ spans[i].starts_on[1] = date_pages_year
    /\ SpecStartPage(spans[i].starts_on) <= p
    /\ p <= SpecLastDayPage

RECURSIVE CoveringItems(_, _)
CoveringItems(n, p) ==
    IF n = 0 THEN <<>>
    ELSE CoveringItems(n - 1, p) \o (IF Covers(n, p) THEN spans[n].items ELSE <<>>)

\* C2: the item list of a page is the concatenation of the items of the spans
\* covering it, in span-list order, each in its own order, with duplicates kept.
C2_ConcatInSpanOrder ==
    Resolved =>
        \A p \in DOMAIN page_items_map :
            page_items_map[p] = CoveringItems(Len(spans), p)

\* the later-starting span comes first in the list and shares the text "B"
C2_Witness ==
    /\ Resolved
    /\ spans = << [starts_on |-> <<2025, 12, 30>>, items |-> <<"B">>],
                  [starts_on |-> <<2025, 3, 1>>, items |-> <<"A", "B">>] >>
    /\ date_pages_year = 2025 /\ date_pages_start = 1
    /\ page_items_map[365] = <<"B", "A", "B">>
    /\ page_items_map[60] = <<"A", "B">>

\* C5 as claimed: every key p of the plan has 1 <= p <= days_in_year.
C5_KeysWithinDaysInYear ==
    Resolved =>
        \A p \in DOMAIN page_items_map :
            1 <= p /\ p <= SpecDaysInYear(date_pages_year)

\* C5 amended: every key p of the plan has
\* date_pages_start <= p <= date_pages_start + days_in_year - 1, so 1 <= p.
C5_KeysWithinDatePages ==
    Resolved =>
        \A p \in DOMAIN page_items_map :
            /\ 1 <= p
            /\ date_pages_start <= p
            /\ p <= date_pages_start + SpecDaysInYear(date_pages_year) - 1

C5_Witness ==
    /\ Resolved
    /\ date_pages_start = 144 /\ date_pages_year = 2024
    /\ 509 \in DOMAIN page_items_map

\* C6: every key of the plan maps to a non-empty item list, also when a span
\* has an empty items list.
C6_NoEmptyItemLists ==
    Resolved => \A p \in DOMAIN page_items_map : page_items_map[p] # <<>>

OtherYear(s) == ValidDate(s.starts_on) /\ s.starts_on[1] # date_pages_year

KeptSpans == SelectSeq(spans, LAMBDA s : ~OtherYear(s))

\* C9: spans of another year are ignored: the run ends as the run on the list
\* without them ends, with the same plan, and aborts only if that one aborts.
C9_OtherYearIgnored ==
    (pc \in {"resolved", "aborted"}) =>
        LET r == Resolve(KeptSpans, date_pages_start, date_pages_year) IN
            /\ (pc = "resolved") = r.ok
            /\ page_items_map = r.map

C9_Witness ==
    /\ Resolved
    /\ spans = << [starts_on |-> <<2024, 2, 29>>, items |-> <<"B">>],
                  [starts_on |-> <<2025, 12, 30>>, items |-> <<"A", "B">>] >>
    /\ date_pages_year = 2025 /\ date_pages_start = 1
    /\ DOMAIN page_items_map = 364..365
    /\ page_items_map[364] = <<"A", "B">>

(***************************************************************************)
(* Properties of the compositor                                            *)
(***************************************************************************)
\* C8: after the pass exactly the plan pages within the document have gained
\* one underlay layer, every other page is unchanged, the annotations of every
\* page are as before, and a plan page beyond the document causes no error
\* (the pass fails only on a plan page of the document without a MediaBox).
C8_CompositingAdditive ==
    /\ (pc = "composited") =>
          /\ Len(pdf) = Len(pdf0)
          /\ \A p \in 1..Len(pdf) :
                /\ pdf[p].annots = pdf0[p].annots
                /\ pdf[p].has_box = pdf0[p].has_box
                /\ pdf[p].underlays =
                      pdf0[p].underlays + (IF p \in DOMAIN page_items_map THEN 1 ELSE 0)
    /\ (pc = "aborted") =>
          \E p \in DOMAIN page_items_map : p <= Len(pdf0) /\ ~pdf0[p].has_box

\* a two-page document: page 1 not in the plan, page 2 with a link in the
\* plan, and the plan also names pages 3 and 4, which the document lacks
C8_Witness ==
    /\ pc = "composited"
    /\ Len(pdf0) = 2
    /\ DOMAIN page_items_map = {2, 3, 4}
    /\ pdf0[2].annots = {"link"}
    /\ pdf[2].underlays = 1 /\ pdf[2].annots = {"link"}
    /\ pdf[1] = pdf0[1]

(***************************************************************************)
(* Properties of the renaming                                              *)
(***************************************************************************)
\* what the claim asks of a member when the identifier goes from old to new
ClaimedPath(m, old, new) ==
    IF m.rest = "" /\ HasPrefix(m.top, old) /\ Len(m.top) > Len(old)
    THEN [top |-> <<new>> \o SubSeq(m.top, Len(old) + 1, Len(m.top)), rest |-> ""]
    ELSE IF m.rest # "" /\ m.top = old
    THEN [top |-> <<new>>, rest |-> m.rest]
    ELSE m

\* C7: re-identifying from O to N turns each top-level file O<suffixes> into
\* N<suffixes> with its whole suffix, moves each member under O/ to N/, keeps
\* every other member, and leaves as many members, none carrying O.
C7_ReidentifyExact ==
    (pc = "repackaged") =>
        /\ members = { ClaimedPath(m, doc_uuid, new_uuid) : m \in members0 }
        /\ Cardinality(members) = Cardinality(members0)
        /\ \A m \in members : ~HasPrefix(m.top, doc_uuid)

(***************************************************************************)
(* Properties of the run                                                   *)
(***************************************************************************)
Mutating(c) == c.cmd \in {"mkdir", "put", "rm", "mv"}

\* C3: when the run aborts on a malformed starts_on, no mutating store
\* command (mkdir, put, rm, mv) has been issued by it.
C3_MalformedDateBeforeMutation ==
    (pc = "aborted" /\ abort = "malformed_date") =>
        \A i \in DOMAIN issued : ~Mutating(issued[i])

TargetAsBefore ==
    /\ (target_name \in DOMAIN store) = (target_name \in DOMAIN store0)
    /\ (target_name \in DOMAIN store) => store[target_name] = store0[target_name]

\* C4: whenever the run ends by a fatal abort the target document in the
\* store is as it was before the run, neither removed nor replaced.
C4_AbortKeepsTarget == (pc = "aborted") => TargetAsBefore

BackupStored(c) ==
    c.by = "backup_journal" /\ c.cmd = "put" /\ c.name = backup_name /\ c.ok

\* C10: the rm and the put of upload_journal are issued only after the put of
\* the backup has returned success.
C10_BackupBeforeReplace ==
    \A i \in DOMAIN issued :
        (issued[i].by = "upload_journal" /\ issued[i].cmd \in {"rm", "put"})
        => /\ \E j \in 1..(i - 1) : BackupStored(issued[j])
           /\ issued[i].ok => (backup_name \in DOMAIN store
                               /\ store[backup_name] = "backup")

\* a completed run that removed the old target and stored the new one
C10_Witness ==
    /\ pc = "done"
    /\ \E i \in DOMAIN issued :
          issued[i].by = "upload_journal" /\ issued[i].cmd = "rm" /\ issued[i].ok
    /\ store0[target_name] = "old_target"
    /\ store[target_name] = "updated"
    /\ store[backup_name] = "backup"

====
